---- MODULE Spec2Model ----
(***************************************************************************)
(* Rate limiting of the Credence backend: the in-memory MemoryStore, the   *)
(* Redis-backed RedisStore and the rateLimit() express middleware          *)
(* (src/middleware/rateLimit.ts, src/middleware/rateLimitRedis.ts).        *)
(*                                                                         *)
(* Times are milliseconds, as in the code (Date.now(), windowMs, ttlMs).   *)
(***************************************************************************)
EXTENDS Integers, Sequences, FiniteSets, TLC

VARIABLES
  now,       \* Date.now(), in ms
  entries,   \* MemoryStore.entries : Map<string, {count, resetAt}>
  win,       \* history: per key, the window the key is in (start, len, calls)
  last,      \* history: the last store call that returned, and what it returned
  shadow,    \* history: per key, the entry the key would have if only that key had been incremented
  opts,      \* the RateLimitOptions the middleware was built with
  reqs,      \* per handler slot, the request whose handler is suspended at its await
  handled,   \* the request whose handler ended last: what it did to res and to next
  nreq,      \* requests received so far
  kind,      \* which RateLimitStore is in use: "memory" or "redis"
  redis,     \* the Redis keys: key -> value and expiry time
  procs,     \* per process instance, the RedisStore.increment call in flight
  rlife,     \* history: per Redis key, its current lifetime (id, values INCR returned, expire calls)
  rn,        \* RedisStore.increment calls started
  kreqs,     \* two requests and the keyGenerator option their keys are derived under
  kout,      \* the client key and the scope key derived for each of the two
  rwin,      \* history: per (client key, method, path), the window its requests are in
  env,       \* process.env.REDIS_URL: absent, or a string
  app,       \* the startup of an application: createRateLimitStore(), then rateLimit({store})
  adm,       \* history: per scope key and store window, the requests admitted so far
  den        \* history: per (client key, method, path) whose last request was denied, that denial

vars == <<now, entries, win, last, shadow, opts, reqs, handled, nreq,
          kind, redis, procs, rlife, rn, kreqs, kout, rwin, env, app, adm, den>>
keyVars == <<kreqs, kout>>
appVars == <<env, app>>
histVars == <<adm, den>>
redisVars == <<redis, procs, rlife, rn>>
memVars == <<entries, win, last, shadow>>
mwVars == <<opts, reqs, handled, nreq>>

(***************************************************************************)
(* Bounds of the model.                                                    *)
(***************************************************************************)
MaxNow == 3000     \* the clock stops advancing here
MaxCalls == 4      \* store increments per behaviour
MwMaxNow == 1000   \* the clock stops advancing here while the middleware runs
MaxReqs == 3       \* requests per behaviour
MaxInFlight == 2   \* handler slots: requests handled at the same time
MaxLimit == 2      \* largest maxPerWindow configured

Ticks == {500, 1000}          \* clock advances between calls
Windows == {1000, 1500}       \* windowMs arguments (1500 is not a whole number of seconds)
MemKeys == {"keyA", "keyB"}   \* keys handed to the store

Max(a, b) == IF a >= b THEN a ELSE b

(***************************************************************************)
(* MemoryStore                                                             *)
(***************************************************************************)

\* this.entries.set(key, entry): the map with key bound to e, the rest as it was
\* (MapSetOnly: a variant that rebuilds the map with the one entry)
MapSetOnly(es, key, e) == [x \in {key} |-> e]
MapSet(es, key, e) ==
  [x \in DOMAIN es \cup {key} |-> IF x = key THEN e ELSE es[x]]

\* the guard of the new-window branch, for an entry that exists
\* (variants: the expiry is never checked; the boundary is compared with <)
WindowExpiredNever(entry, t) == FALSE
WindowExpiredStrict(entry, t) == entry.resetAt < t
WindowExpired(entry, t) == entry.resetAt <= t

\* MemoryStore.increment: the map after the call and the RateLimitResult
\* (MemIncrementLost: a variant that returns count + 1 without storing it;
\* MemIncrementSliding: a variant that restarts the expiry on every call;
\* MemIncrementSweep: a variant that also evicts the expired entries of other keys)
MemIncrementSliding(es, key, windowMs, t) ==
  IF key \notin DOMAIN es \/ WindowExpired(es[key], t)
  THEN [entries |-> MapSet(es, key, [count |-> 1, resetAt |-> t + windowMs]),
        result  |-> [count |-> 1, ttlMs |-> windowMs]]
  ELSE [entries |-> MapSet(es, key, [count |-> es[key].count + 1, resetAt |-> t + windowMs]),
        result  |-> [count |-> es[key].count + 1, ttlMs |-> windowMs]]
MemIncrementSweep(es, key, windowMs, t) ==
  LET kept == [x \in {y \in DOMAIN es : y = key \/ ~WindowExpired(es[y], t)} |-> es[x]]
  IN IF key \notin DOMAIN es \/ WindowExpired(es[key], t)
     THEN [entries |-> MapSet(kept, key, [count |-> 1, resetAt |-> t + windowMs]),
           result  |-> [count |-> 1, ttlMs |-> windowMs]]
     ELSE [entries |-> MapSet(kept, key, [count |-> es[key].count + 1, resetAt |-> es[key].resetAt]),
           result  |-> [count |-> es[key].count + 1, ttlMs |-> Max(0, es[key].resetAt - t)]]
MemIncrementLost(es, key, windowMs, t) ==
  IF key \notin DOMAIN es \/ WindowExpired(es[key], t)
  THEN [entries |-> MapSet(es, key, [count |-> 1, resetAt |-> t + windowMs]),
        result  |-> [count |-> 1, ttlMs |-> windowMs]]
  ELSE [entries |-> es,
        result  |-> [count |-> es[key].count + 1, ttlMs |-> Max(0, es[key].resetAt - t)]]
MemIncrement(es, key, windowMs, t) ==
  IF key \notin DOMAIN es \/ WindowExpired(es[key], t)
  THEN [entries |-> MapSet(es, key, [count |-> 1, resetAt |-> t + windowMs]),
        result  |-> [count |-> 1, ttlMs |-> windowMs]]
  ELSE LET c == es[key].count + 1
           r == es[key].resetAt
       IN [entries |-> MapSet(es, key, [count |-> c, resetAt |-> r]),
           result  |-> [count |-> c, ttlMs |-> Max(0, r - t)]]

\* MemoryStore.clear   (MemClearedStale: a variant that leaves one entry behind)
MemClearedStale == [x \in {"keyA"} |-> [count |-> 1, resetAt |-> MaxNow]]
MemCleared == << >>

NoCall == [op |-> "none"]
NCalls == IF last.op = "none" THEN 0 ELSE last.n
Cleared == last.op # "none" /\ last.cleared    \* whether clear() has been called

\* the window a key is in after an increment at time t, as the interface defines it:
\* a new window starts when there is none or the previous one has elapsed
WinAfter(w, key, windowMs, t, count) ==
  [x \in DOMAIN w \cup {key} |->
     IF x # key THEN w[x]
     ELSE IF key \in DOMAIN w /\ t < w[key].start + w[key].len
          THEN [w[key] EXCEPT !.calls = @ + 1, !.counts = Append(@, count)]
          ELSE [start |-> t, len |-> windowMs, calls |-> 1, counts |-> <<count>>]]

NoOpts == [store |-> "none"]
NoApp == [pc |-> "none"]
NoReqs == << >>

\* a caller awaits store.increment(key, windowMs)
MemCall(key, windowMs) ==
  /\ kind = "memory"
  /\ NCalls < MaxCalls
  /\ LET out    == MemIncrement(entries, key, windowMs, now)
         inWin  == key \in DOMAIN win /\ now < win[key].start + win[key].len
         own    == [x \in DOMAIN shadow \cap {key} |-> shadow[x]]
         alone  == MemIncrement(own, key, windowMs, now)
     IN /\ entries' = out.entries
        /\ win' = WinAfter(win, key, windowMs, now, out.result.count)
        /\ shadow' = [x \in DOMAIN shadow \cup {key} |->
                        IF x = key THEN alone.entries[key] ELSE shadow[x]]
        /\ last' = [op |-> "increment", n |-> NCalls + 1, key |-> key,
                    windowMs |-> windowMs, at |-> now,
                    count |-> out.result.count, ttlMs |-> out.result.ttlMs,
                    alone |-> alone.result,
                    started |-> ~inWin,
                    hadWindow |-> key \in DOMAIN win,
                    prevStart |-> IF key \in DOMAIN win THEN win[key].start ELSE 0,
                    prevLen |-> IF key \in DOMAIN win THEN win[key].len ELSE 0,
                    prevCount |-> IF key \in DOMAIN entries THEN entries[key].count ELSE 0,
                    before |-> entries, cleared |-> Cleared]
  /\ UNCHANGED <<now, kind, keyVars, histVars, appVars, rwin, mwVars, redisVars>>

\* a caller calls store.clear()
MemClear ==
  /\ kind = "memory"
  /\ last.op = "increment"
  /\ entries' = MemCleared
  /\ win' = << >>
  /\ shadow' = << >>
  /\ last' = [op |-> "clear", n |-> last.n, cleared |-> TRUE]
  /\ UNCHANGED <<now, kind, keyVars, histVars, appVars, rwin, mwVars, redisVars>>

\* time passes
Tick ==
  /\ \E d \in Ticks : now + d <= MaxNow /\ now' = now + d
  /\ UNCHANGED <<kind, keyVars, histVars, appVars, rwin, memVars, mwVars, redisVars>>

(***************************************************************************)
(* The rateLimit() middleware                                              *)
(***************************************************************************)

\* a request: method, path, headers, and the optional req.ip and
\* req.socket.remoteAddress (a sequence of at most one element)
Requests ==
  { [method |-> "GET", path |-> "/a", headers |-> << >>,
     ip |-> << >>, remoteAddress |-> <<"10.0.0.1">>],
    [method |-> "POST", path |-> "/b", headers |-> << >>,
     ip |-> << >>, remoteAddress |-> <<"10.0.0.1">>],
    [method |-> "GET", path |-> "/a", headers |-> [h \in {"x-api-key"} |-> "k1"],
     ip |-> <<"10.0.0.2">>, remoteAddress |-> <<"10.0.0.1">>] }

\* defaultKeyGenerator
\* (DefaultKeyGeneratorAnyHeader: a variant without the apiKey.length > 0 test)
DefaultKeyGeneratorAnyHeader(req) ==
  IF "x-api-key" \in DOMAIN req.headers
  THEN "key:" \o req.headers["x-api-key"]
  ELSE "ip:" \o (IF req.ip # << >> THEN req.ip[1]
                 ELSE IF req.remoteAddress # << >> THEN req.remoteAddress[1]
                 ELSE "unknown")
DefaultKeyGenerator(req) ==
  IF "x-api-key" \in DOMAIN req.headers /\ Len(req.headers["x-api-key"]) > 0
  THEN "key:" \o req.headers["x-api-key"]
  ELSE "ip:" \o (IF req.ip # << >> THEN req.ip[1]
                 ELSE IF req.remoteAddress # << >> THEN req.remoteAddress[1]
                 ELSE "unknown")

\* a caller-supplied keyGenerator: (r) => `custom:${r.headers['x-client-id'] ?? 'anon'}`
CustomKeyGenerator(req) ==
  "custom:" \o (IF "x-client-id" \in DOMAIN req.headers
                THEN req.headers["x-client-id"] ELSE "anon")

\* a caller-supplied getConfig: a stricter policy for one route
GetConfigByRoute(req) ==
  IF req.path = "/b" /\ req.method = "POST"
  THEN [maxPerWindow |-> 1, windowMs |-> 1000]
  ELSE [maxPerWindow |-> 2, windowMs |-> 1500]

\* const config = getConfig ? getConfig(req) : { maxPerWindow: defaultMax, windowMs: defaultWindowMs }
\* (ResolveConfigStatic: a variant that ignores getConfig)
ResolveConfigStatic(o, req) == [maxPerWindow |-> o.maxPerWindow, windowMs |-> o.windowMs]
ResolveConfig(o, req) ==
  IF o.getConfig = "byRoute" THEN GetConfigByRoute(req)
  ELSE [maxPerWindow |-> o.maxPerWindow, windowMs |-> o.windowMs]

\* const key = keyGenerator(req)
\* (ResolveKeyMerged: a variant that appends the default key to the custom one)
ResolveKeyMerged(o, req) ==
  IF o.keyGenerator = "custom"
  THEN CustomKeyGenerator(req) \o "|" \o DefaultKeyGenerator(req)
  ELSE DefaultKeyGenerator(req)
ResolveKey(o, req) ==
  IF o.keyGenerator = "custom" THEN CustomKeyGenerator(req) ELSE DefaultKeyGenerator(req)

\* const scopeKey = `rl:${key}:${req.method}:${req.path}`
\* (ScopeKeyNoRoute: a variant that scopes by client only;
\* ScopeKeyNoMethod: a variant that leaves the method out)
ScopeKeyNoRoute(key, req) == "rl:" \o key
ScopeKeyNoMethod(key, req) == "rl:" \o key \o ":" \o req.path
ScopeKey(key, req) == "rl:" \o key \o ":" \o req.method \o ":" \o req.path

\* Math.ceil(ttlMs / 1000), for ttlMs >= 0   (CeilSecFloor: a variant that rounds down)
MsPerSec == 1000
CeilSecFloor(ms) == ms \div MsPerSec
CeilSec(ms) == (ms + MsPerSec - 1) \div MsPerSec

\* the response and the continuation as the handler found them
NoBody == << >>
NoHeaders == << >>
Slots == 1 .. MaxInFlight
Idle == [pc |-> "idle"]

\* if (count > maxPerWindow)   (OverLimitGe: a variant that compares with >=;
\* OverLimitLate: a variant that lets one more request through)
OverLimitGe(count, maxPerWindow) == count >= maxPerWindow
OverLimitLate(count, maxPerWindow) == count > maxPerWindow + 1
OverLimit(count, maxPerWindow) == count > maxPerWindow

\* the deny branch: setHeader, status(429).json(...), return
\* (DenyThenNext: a variant without the return, which falls through to next();
\* DenyRoundDown: a variant that rounds the retry-after down)
DenyRoundDown(r) ==
  LET retryAfterSec == r.ttlMs \div MsPerSec
  IN [r EXCEPT !.pc = "done",
               !.headers = [h \in {"Retry-After"} |-> ToString(retryAfterSec)],
               !.status = 429,
               !.body = [error |-> "Too Many Requests",
                         message |-> "Rate limit exceeded. Please retry after the Retry-After period.",
                         retryAfter |-> retryAfterSec]]
DenyThenNext(r) ==
  LET retryAfterSec == CeilSec(r.ttlMs)
  IN [r EXCEPT !.pc = "done",
               !.headers = [h \in {"Retry-After"} |-> ToString(retryAfterSec)],
               !.status = 429,
               !.body = [error |-> "Too Many Requests",
                         message |-> "Rate limit exceeded. Please retry after the Retry-After period.",
                         retryAfter |-> retryAfterSec],
               !.nextCalls = @ + 1]
Deny(r) ==
  LET retryAfterSec == CeilSec(r.ttlMs)
  IN [r EXCEPT !.pc = "done",
               !.headers = [h \in {"Retry-After"} |-> ToString(retryAfterSec)],
               !.status = 429,
               !.body = [error |-> "Too Many Requests",
                         message |-> "Rate limit exceeded. Please retry after the Retry-After period.",
                         retryAfter |-> retryAfterSec]]

\* the allow branch: next()
Allow(r) == [r EXCEPT !.pc = "done", !.nextCalls = @ + 1]

\* catch (err) { next() }   (OnStoreErrorDeny: a variant that fails closed)
OnStoreErrorDeny(r) == Deny(r)
OnStoreError(r) == [r EXCEPT !.pc = "done", !.nextCalls = @ + 1]

\* The options of rateLimit(options). The store is the default MemoryStore
\* ("memory") or a supplied store whose increment may reject ("flaky": a
\* MemoryStore behind a connection that can fail); the supplied store is
\* combined with the static policy and the default key generator only.
MwInit ==
  /\ now = 0
  /\ entries = << >>
  /\ win = << >>
  /\ last = NoCall
  /\ shadow = << >>
  /\ opts \in [maxPerWindow : 0 .. MaxLimit,
               windowMs : Windows,
               getConfig : {"none", "byRoute"},
               keyGenerator : {"default", "custom"},
               store : {"memory", "flaky"}]
  /\ opts.store = "flaky" => opts.getConfig = "none" /\ opts.keyGenerator = "default"
  /\ reqs = [s \in Slots |-> Idle]
  /\ handled = Idle
  /\ nreq = 0
  /\ kind = "memory"
  /\ redis = << >>
  /\ procs = << >>
  /\ rlife = << >>
  /\ rn = 0
  /\ kreqs = NoReqs
  /\ kout = NoReqs
  /\ rwin = << >>
  /\ adm = << >>
  /\ den = << >>
  /\ env = << >>
  /\ app = NoApp

\* The handler up to its await: the policy and the client key are resolved
\* outside the try block, so a resolver that throws rejects the handler's
\* promise; store.increment runs to its end inside the call (MemoryStore.increment
\* holds no await), and its result reaches the handler when the await resumes.
\* thr: which resolver throws; fail: whether the supplied store rejects, before
\* or after it counted the request.
MwStart(s, req, thr, fail) ==
  /\ nreq < MaxReqs
  /\ reqs[s].pc = "idle"
  /\ \A s2 \in Slots : s2 < s => reqs[s2].pc # "idle"
  /\ thr = "getConfig" => opts.getConfig # "none"
  /\ thr = "keyGenerator" => opts.keyGenerator # "default"
  /\ fail # "no" => opts.store = "flaky"
  /\ nreq' = nreq + 1
  /\ LET config   == ResolveConfig(opts, req)
         key      == ResolveKey(opts, req)
         scopeKey == ScopeKey(key, req)
         route    == <<key, req.method, req.path>>
         out      == MemIncrement(entries, scopeKey, config.windowMs, now)
         counted  == thr = "none" /\ fail # "before"
         w2       == WinAfter(win, scopeKey, config.windowMs, now, out.result.count)
         rw2      == WinAfter(rwin, route, config.windowMs, now, out.result.count)
         r0 == [pc |-> "awaiting", req |-> req, thr |-> thr, fail |-> fail,
                scopeKey |-> scopeKey, maxPerWindow |-> config.maxPerWindow,
                windowMs |-> config.windowMs, ok |-> fail = "no",
                count |-> out.result.count, ttlMs |-> out.result.ttlMs,
                pos |-> w2[scopeKey].calls, winStart |-> w2[scopeKey].start,
                key |-> key, rpos |-> rw2[route].calls,
                nextCalls |-> 0, status |-> 0, headers |-> NoHeaders, body |-> NoBody]
     IN /\ IF thr # "none"
           THEN /\ handled' = [pc |-> "rejected", req |-> req, thr |-> thr,
                               nextCalls |-> 0, status |-> 0,
                               headers |-> NoHeaders, body |-> NoBody]
                /\ UNCHANGED reqs
           ELSE /\ reqs' = [reqs EXCEPT ![s] = r0]
                /\ UNCHANGED handled
        /\ entries' = IF counted THEN out.entries ELSE entries
        /\ win' = IF counted THEN w2 ELSE win
        /\ rwin' = IF counted THEN rw2 ELSE rwin
  /\ UNCHANGED <<now, opts, last, shadow, kind, keyVars, histVars, appVars, redisVars>>

\* The handler from its await on: the 429, or next(), or the catch block.
MwResume(s) ==
  /\ reqs[s].pc = "awaiting"
  /\ handled' = IF ~reqs[s].ok THEN OnStoreError(reqs[s])
                ELSE IF OverLimit(reqs[s].count, reqs[s].maxPerWindow)
                     THEN Deny(reqs[s])
                     ELSE Allow(reqs[s])
  /\ reqs' = [reqs EXCEPT ![s] = Idle]
  /\ adm' = LET w == <<reqs[s].scopeKey, reqs[s].winStart>>
            IN IF handled'.nextCalls > 0
               THEN [x \in DOMAIN adm \cup {w} |->
                       IF x = w THEN (IF w \in DOMAIN adm THEN adm[w] + 1 ELSE 1)
                       ELSE adm[x]]
               ELSE adm
  /\ UNCHANGED <<now, memVars, opts, nreq, kind, keyVars, den, appVars, rwin, redisVars>>

\* time passes
MwTick ==
  /\ \E d \in Ticks : now + d <= MwMaxNow /\ now' = now + d
  /\ UNCHANGED <<kind, keyVars, histVars, appVars, rwin, memVars, mwVars, redisVars>>

MwNext ==
  \/ \E s \in Slots, req \in Requests,
        thr \in {"none", "getConfig", "keyGenerator"},
        fail \in {"no", "before", "after"} : MwStart(s, req, thr, fail)
  \/ \E s \in Slots : MwResume(s)
  \/ MwTick

SpecMw == MwInit /\ [][MwNext]_vars

(***************************************************************************)
(* Key derivation: the client key and the scope key of two requests        *)
(***************************************************************************)

\* optional values: a sequence of at most one element
ApiKeys == {<< >>, <<"">>, <<"a">>, <<"a:GET:/x">>}    \* X-API-Key header
ClientIds == {<< >>, <<"c9">>}                        \* x-client-id header
Ips == {<< >>, <<"10.0.0.2">>}                        \* req.ip
RemoteAddresses == {<< >>, <<"10.0.0.1">>}            \* req.socket?.remoteAddress
KeyMethods == {"GET", "POST"}
KeyPaths == {"/x", "/y", "/x:POST:/y"}

HeadersOf(apiKey, clientId) ==
  [h \in (IF apiKey # << >> THEN {"x-api-key"} ELSE {})
         \cup (IF clientId # << >> THEN {"x-client-id"} ELSE {}) |->
     IF h = "x-api-key" THEN apiKey[1] ELSE clientId[1]]

KeyRequests ==
  { [method |-> m, path |-> p, headers |-> HeadersOf(a, c), ip |-> i, remoteAddress |-> r] :
      m \in KeyMethods, p \in KeyPaths, a \in ApiKeys, c \in ClientIds,
      i \in Ips, r \in RemoteAddresses }

KeyInit ==
  /\ now = 0
  /\ entries = << >>
  /\ win = << >>
  /\ last = NoCall
  /\ shadow = << >>
  /\ opts = NoOpts
  /\ reqs = NoReqs
  /\ handled = Idle
  /\ nreq = 0
  /\ kind = "memory"
  /\ redis = << >>
  /\ procs = << >>
  /\ rlife = << >>
  /\ rn = 0
  /\ kreqs \in [o : [keyGenerator : {"default", "custom"}],
                r : [{1, 2} -> KeyRequests]]
  /\ kout = NoReqs
  /\ rwin = << >>
  /\ adm = << >>
  /\ den = << >>
  /\ env = << >>
  /\ app = NoApp

\* lines 163-164 of the handler, for each of the two requests
KeyBuild ==
  /\ kout = NoReqs
  /\ kout' = [i \in {1, 2} |->
                [client |-> ResolveKey(kreqs.o, kreqs.r[i]),
                 scope  |-> ScopeKey(ResolveKey(kreqs.o, kreqs.r[i]), kreqs.r[i])]]
  /\ UNCHANGED <<now, kind, memVars, mwVars, redisVars, kreqs, histVars, rwin, appVars>>

KeyNext == KeyBuild

SpecKey == KeyInit /\ [][KeyNext]_vars

(***************************************************************************)
(* RedisStore, and the Redis commands it calls                             *)
(***************************************************************************)

NoExpiry == -1
RProcs == {"p1", "p2"}   \* process instances sharing one Redis
RKeys == {"keyA"}        \* keys handed to the RedisStore

\* whether the key exists at time t (Redis drops a key when its expiry is reached)
RedisLive(db, key, t) ==
  key \in DOMAIN db /\ (db[key].expireAt = NoExpiry \/ t < db[key].expireAt)

\* INCR key: one atomic command; a missing key counts from 0 and has no expiry
RedisIncr(db, key, t) ==
  LET v == IF RedisLive(db, key, t) THEN db[key].val + 1 ELSE 1
      e == IF RedisLive(db, key, t) THEN db[key].expireAt ELSE NoExpiry
  IN [db |-> [x \in DOMAIN db \cup {key} |->
                IF x = key THEN [val |-> v, expireAt |-> e] ELSE db[x]],
      value |-> v]

\* EXPIRE key seconds: sets the expiry of a key that exists
RedisExpire(db, key, sec, t) ==
  IF RedisLive(db, key, t)
  THEN [db EXCEPT ![key].expireAt = t + sec * MsPerSec]
  ELSE db

\* TTL key: -2 for no key, -1 for no expiry, else the remaining time in
\* seconds, rounded to the nearest second
RedisTtl(db, key, t) ==
  IF ~RedisLive(db, key, t) THEN -2
  ELSE IF db[key].expireAt = NoExpiry THEN -1
  ELSE (db[key].expireAt - t + 500) \div MsPerSec

\* if (count === 1)   (FirstInWindowAlways: a variant that sets the expiry on every call;
\* FirstTwoInWindow: a variant that also sets it on the second call)
FirstInWindowAlways(count) == TRUE
FirstTwoInWindow(count) == count <= 2
FirstInWindow(count) == count = 1

\* const windowSec = Math.ceil(windowMs / 1000)
WindowSec(windowMs) == CeilSec(windowMs)

\* const ttlMs = ttlSec > 0 ? ttlSec * 1000 : 0
TtlMs(ttlSec) == IF ttlSec > 0 THEN ttlSec * MsPerSec ELSE 0

RIdle == [pc |-> "idle"]

\* One store is built, a MemoryStore or a RedisStore, and called directly.
StoreInit ==
  /\ kind \in {"memory", "redis"}
  /\ now = 0
  /\ entries = << >>
  /\ win = << >>
  /\ last = NoCall
  /\ shadow = << >>
  /\ opts = NoOpts
  /\ reqs = NoReqs
  /\ handled = Idle
  /\ nreq = 0
  /\ redis = << >>
  /\ procs = [p \in RProcs |-> RIdle]
  /\ rlife = << >>
  /\ rn = 0
  /\ kreqs = NoReqs
  /\ kout = NoReqs
  /\ rwin = << >>
  /\ adm = << >>
  /\ den = << >>
  /\ env = << >>
  /\ app = NoApp

\* RedisStore.increment, first await: const count = await this.client.incr(key)
RIncr(p, key, windowMs) ==
  /\ kind = "redis"
  /\ rn < MaxCalls
  /\ procs[p].pc = "idle"
  /\ p = "p2" => procs["p1"].pc # "idle"
  /\ LET out   == RedisIncr(redis, key, now)
         fresh == ~RedisLive(redis, key, now)
         id    == IF fresh
                  THEN (IF key \in DOMAIN rlife THEN rlife[key].id + 1 ELSE 1)
                  ELSE rlife[key].id
     IN /\ redis' = out.db
        /\ rlife' = [x \in DOMAIN rlife \cup {key} |->
                       IF x # key THEN rlife[x]
                       ELSE IF fresh
                            THEN [id |-> id, counts |-> <<out.value>>, expireCalls |-> 0]
                            ELSE [rlife[key] EXCEPT !.counts = Append(@, out.value)]]
        /\ procs' = [procs EXCEPT ![p] =
                       [pc |-> IF FirstInWindow(out.value) THEN "expire" ELSE "ttl",
                        key |-> key, windowMs |-> windowMs, count |-> out.value,
                        fresh |-> fresh, life |-> id, expire |-> << >>]]
  /\ rn' = rn + 1
  /\ UNCHANGED <<now, kind, keyVars, histVars, appVars, rwin, memVars, mwVars>>

\* second await: await this.client.expire(key, windowSec)
RExpire(p) ==
  /\ procs[p].pc = "expire"
  /\ redis' = RedisExpire(redis, procs[p].key, WindowSec(procs[p].windowMs), now)
  /\ rlife' = [rlife EXCEPT ![procs[p].key].expireCalls =
                 IF rlife[procs[p].key].id = procs[p].life THEN @ + 1 ELSE @]
  /\ procs' = [procs EXCEPT ![p].pc = "ttl",
                            ![p].expire = <<WindowSec(procs[p].windowMs)>>]
  /\ UNCHANGED <<now, kind, keyVars, histVars, appVars, rwin, memVars, mwVars, rn>>

\* third await: const ttlSec = await this.client.ttl(key), and the return
RTtl(p) ==
  /\ procs[p].pc = "ttl"
  /\ last' = [op |-> "increment", n |-> NCalls + 1, key |-> procs[p].key,
              windowMs |-> procs[p].windowMs,
              count |-> procs[p].count,
              ttlMs |-> TtlMs(RedisTtl(redis, procs[p].key, now)),
              started |-> procs[p].fresh, expire |-> procs[p].expire]
  /\ procs' = [procs EXCEPT ![p] = RIdle]
  /\ UNCHANGED <<now, kind, keyVars, histVars, appVars, rwin, entries, win, shadow, mwVars, redis, rlife, rn>>

StoreNext ==
  \/ \E key \in MemKeys, windowMs \in Windows : MemCall(key, windowMs)
  \/ MemClear
  \/ \E p \in RProcs, key \in RKeys, windowMs \in Windows : RIncr(p, key, windowMs)
  \/ \E p \in RProcs : RExpire(p)
  \/ \E p \in RProcs : RTtl(p)
  \/ Tick

SpecStore == StoreInit /\ [][StoreNext]_vars

(***************************************************************************)
(* Startup: createRateLimitStore(), then one middleware over its store     *)
(***************************************************************************)

AppMaxNow == 1000    \* time bound of the application run
MaxAppReqs == 3      \* requests the application handles

RedisUrls == {<< >>, <<"">>, <<"redis://localhost:6379">>}

\* if (redisUrl): undefined and '' are falsy
UrlSet(url) == url # << >> /\ url[1] # ""

\* catch { return new MemoryStore() }   (OnCreateErrorRethrow: a variant that lets the error out)
OnCreateErrorRethrow(a) == [a EXCEPT !.pc = "rejected"]
OnCreateError(a) == [a EXCEPT !.pc = "resolved", !.store = "memory"]

\* app.use(rateLimit({ windowMs, maxPerWindow, store }))
AppOptions(store) ==
  [maxPerWindow |-> 1, windowMs |-> 1500, getConfig |-> "none",
   keyGenerator |-> "default", store |-> store]

\* the store the handler calls: the one bound when rateLimit(options) ran,
\* whatever the outcome of the call
\* (HandlerStoreFallback: a variant that turns to a MemoryStore when Redis fails)
HandlerStoreFallback(store, failAt) == IF failAt # "no" THEN "memory" ELSE store
HandlerStore(store, failAt) == store

\* RedisStore.increment run without interleaving; failAt names the command
\* whose promise rejects (the connection is lost), "no" if none does
RedisStoreIncrement(db, key, windowMs, t, failAt) ==
  LET i == RedisIncr(db, key, t)
      e == IF FirstInWindow(i.value)
           THEN RedisExpire(i.db, key, WindowSec(windowMs), t) ELSE i.db
  IN IF failAt = "incr" THEN [db |-> db, ok |-> FALSE, count |-> 0, ttlMs |-> 0]
     ELSE IF failAt = "expire" /\ FirstInWindow(i.value)
          THEN [db |-> i.db, ok |-> FALSE, count |-> i.value, ttlMs |-> 0]
     ELSE IF failAt = "ttl"
          THEN [db |-> e, ok |-> FALSE, count |-> i.value, ttlMs |-> 0]
     ELSE [db |-> e, ok |-> TRUE, count |-> i.value,
           ttlMs |-> TtlMs(RedisTtl(e, key, t))]

AppInit ==
  /\ now = 0
  /\ entries = << >>
  /\ win = << >>
  /\ last = NoCall
  /\ shadow = << >>
  /\ opts = NoOpts
  /\ reqs = NoReqs
  /\ handled = Idle
  /\ nreq = 0
  /\ kind = "none"
  /\ redis = << >>
  /\ procs = << >>
  /\ rlife = << >>
  /\ rn = 0
  /\ kreqs = NoReqs
  /\ kout = NoReqs
  /\ rwin = << >>
  /\ adm = << >>
  /\ den = << >>
  /\ env \in RedisUrls
  /\ app = [pc |-> "start", store |-> "none", imported |-> "none",
            connect |-> "none", selections |-> 0]

\* createRateLimitStore up to its first await
CreateStart ==
  /\ app.pc = "start"
  /\ app' = IF UrlSet(env)
            THEN [app EXCEPT !.pc = "importing", !.selections = @ + 1]
            ELSE [app EXCEPT !.pc = "resolved", !.store = "memory", !.selections = @ + 1]
  /\ UNCHANGED <<now, kind, keyVars, histVars, rwin, env, memVars, mwVars, redisVars>>

\* await import('./rateLimitRedis.js'), and in connect: await import('ioredis')
CreateImport(ok) ==
  /\ app.pc = "importing"
  /\ app' = IF ok THEN [app EXCEPT !.pc = "connecting", !.imported = "ok"]
            ELSE OnCreateError([app EXCEPT !.imported = "failed"])
  /\ UNCHANGED <<now, kind, keyVars, histVars, rwin, env, memVars, mwVars, redisVars>>

\* await RedisStore.connect(redisUrl): the client emits 'ready' or 'error'
CreateConnect(event) ==
  /\ app.pc = "connecting"
  /\ app' = IF event = "ready"
            THEN [app EXCEPT !.pc = "resolved", !.store = "redis", !.connect = event]
            ELSE OnCreateError([app EXCEPT !.connect = event])
  /\ UNCHANGED <<now, kind, keyVars, histVars, rwin, env, memVars, mwVars, redisVars>>

\* rateLimit({ ..., store }): the store is bound in the handler's closure
Construct ==
  /\ app.pc = "resolved"
  /\ app' = [app EXCEPT !.pc = "serving"]
  /\ opts' = AppOptions(app.store)
  /\ kind' = app.store
  /\ UNCHANGED <<now, keyVars, histVars, rwin, env, memVars, reqs, handled, nreq, redisVars>>

\* one request through the handler, requests being handled one at a time
AppHandle(req, failAt) ==
  /\ app.pc = "serving"
  /\ nreq < MaxAppReqs
  /\ nreq' = nreq + 1
  /\ LET config   == ResolveConfig(opts, req)
         scopeKey == ScopeKey(ResolveKey(opts, req), req)
         store    == HandlerStore(kind, failAt)
         mem      == MemIncrement(entries, scopeKey, config.windowMs, now)
         red      == RedisStoreIncrement(redis, scopeKey, config.windowMs, now, failAt)
         r0 == [pc |-> "awaiting", req |-> req, failAt |-> failAt, store |-> store,
                scopeKey |-> scopeKey, maxPerWindow |-> config.maxPerWindow,
                ok |-> IF store = "memory" THEN TRUE ELSE red.ok,
                count |-> IF store = "memory" THEN mem.result.count ELSE red.count,
                ttlMs |-> IF store = "memory" THEN mem.result.ttlMs ELSE red.ttlMs,
                nextCalls |-> 0, status |-> 0, headers |-> NoHeaders, body |-> NoBody]
     IN /\ failAt # "no" => kind = "redis"
        /\ failAt = "expire" => FirstInWindow(RedisIncr(redis, scopeKey, now).value)
        /\ entries' = IF store = "memory" THEN mem.entries ELSE entries
        /\ redis' = IF store = "redis" THEN red.db ELSE redis
        /\ handled' = IF ~r0.ok THEN OnStoreError(r0)
                      ELSE IF OverLimit(r0.count, r0.maxPerWindow) THEN Deny(r0)
                      ELSE Allow(r0)
  /\ UNCHANGED <<now, kind, keyVars, histVars, rwin, appVars, win, last, shadow, opts, reqs,
                 procs, rlife, rn>>

AppTick ==
  /\ app.pc = "serving"
  /\ \E d \in Ticks : now + d <= AppMaxNow /\ now' = now + d
  /\ UNCHANGED <<kind, keyVars, histVars, rwin, appVars, memVars, mwVars, redisVars>>

AppNext ==
  \/ CreateStart
  \/ \E ok \in BOOLEAN : CreateImport(ok)
  \/ \E event \in {"ready", "error"} : CreateConnect(event)
  \/ Construct
  \/ \E req \in Requests, failAt \in {"no", "incr", "expire", "ttl"} : AppHandle(req, failAt)
  \/ AppTick

SpecApp == AppInit /\ [][AppNext]_vars

(***************************************************************************)
(* One middleware over a MemoryStore, its requests handled one after the   *)
(* other, with a response and a continuation that may throw                *)
(***************************************************************************)

SeqMaxNow == 2000    \* time bound of the run
MaxSeqReqs == 3      \* requests handled

Throws == {"none", "next", "setHeader", "status", "json"}   \* the call that throws
NoDeny == [at |-> -1]

\* the allow branch when next() may throw: the exception raised inside try
\* is caught by the handler's own catch block, which calls next() again
AllowThrowing(r, thr) ==
  IF thr = "next" THEN OnStoreError(Allow(r)) ELSE Allow(r)

\* the deny branch when res.setHeader, res.status or res.json may throw: what
\* was written before the exception stays written, and the catch block calls next()
DenyThrowing(r, thr) ==
  LET d == Deny(r)
  IN IF thr = "setHeader" THEN OnStoreError(r)
     ELSE IF thr = "status" THEN OnStoreError([r EXCEPT !.headers = d.headers])
     ELSE IF thr = "json"
          THEN OnStoreError([r EXCEPT !.headers = d.headers, !.status = d.status])
     ELSE d

SeqInit ==
  /\ now = 0
  /\ entries = << >>
  /\ win = << >>
  /\ last = NoCall
  /\ shadow = << >>
  /\ opts \in [maxPerWindow : {0, 1}, windowMs : Windows, getConfig : {"none"},
               keyGenerator : {"default"}, store : {"memory"}]
  /\ reqs = NoReqs
  /\ handled = Idle
  /\ nreq = 0
  /\ kind = "memory"
  /\ redis = << >>
  /\ procs = << >>
  /\ rlife = << >>
  /\ rn = 0
  /\ kreqs = NoReqs
  /\ kout = NoReqs
  /\ rwin = << >>
  /\ adm = << >>
  /\ den = << >>
  /\ env = << >>
  /\ app = NoApp

\* the whole handler for one request; thr names the call that throws, if any
SeqHandle(req, thr) ==
  /\ nreq < MaxSeqReqs
  /\ nreq' = nreq + 1
  /\ LET config   == ResolveConfig(opts, req)
         key      == ResolveKey(opts, req)
         scopeKey == ScopeKey(key, req)
         route    == <<key, req.method, req.path>>
         out      == MemIncrement(entries, scopeKey, config.windowMs, now)
         over     == OverLimit(out.result.count, config.maxPerWindow)
         r0 == [pc |-> "awaiting", req |-> req, thr |-> thr, ok |-> TRUE, at |-> now,
                scopeKey |-> scopeKey, maxPerWindow |-> config.maxPerWindow,
                windowMs |-> config.windowMs,
                count |-> out.result.count, ttlMs |-> out.result.ttlMs,
                deny |-> IF route \in DOMAIN den THEN den[route] ELSE NoDeny,
                nextCalls |-> 0, status |-> 0, headers |-> NoHeaders, body |-> NoBody]
         h  == IF over THEN DenyThrowing(r0, thr) ELSE AllowThrowing(r0, thr)
     IN /\ thr = "next" => ~over
        /\ thr \in {"setHeader", "status", "json"} => over
        /\ entries' = out.entries
        /\ handled' = h
        /\ den' = IF h.nextCalls = 0 /\ h.status = 429
                  THEN [x \in DOMAIN den \cup {route} |->
                          IF x = route
                          THEN [at |-> now, ttlMs |-> h.ttlMs, retryAfter |-> h.body.retryAfter]
                          ELSE den[x]]
                  ELSE [x \in DOMAIN den \ {route} |-> den[x]]
  /\ UNCHANGED <<now, kind, keyVars, adm, appVars, rwin, win, last, shadow, opts, reqs,
                 redisVars>>

SeqTick ==
  /\ \E d \in Ticks : now + d <= SeqMaxNow /\ now' = now + d
  /\ UNCHANGED <<kind, keyVars, histVars, appVars, rwin, memVars, mwVars, redisVars>>

SeqNext ==
  \/ \E req \in Requests, thr \in Throws : SeqHandle(req, thr)
  \/ SeqTick

SpecSeq == SeqInit /\ [][SeqNext]_vars

(***************************************************************************)
(* Claims about the stores, checked under SpecStore.                       *)
(***************************************************************************)

\* C4: Monotonic count. The k-th increment of a key inside one window returns
\* count = k; a returned count of 1 occurs exactly when the increment started a
\* new window; inside a window the count never decreases.
MonotonicCount ==
  (kind = "memory" /\ last.op = "increment") =>
    /\ last.count = win[last.key].calls
    /\ (last.count = 1) <=> last.started
    /\ ~last.started => last.count >= last.prevCount
    /\ entries[last.key].count = last.count

MonotonicCountWitness ==
  /\ kind = "memory"
  /\ last.op = "increment"
  /\ ~last.started
  /\ last.count = 3
  /\ last.at > win[last.key].start

\* C5: Window reset. For a key whose window of length W was started at time s,
\* an increment (with that window length W) at a time strictly after s + W
\* returns count = 1 and remaining time = W, whatever count the previous window
\* had reached.
WindowReset ==
  ( /\ kind = "memory"
    /\ last.op = "increment"
    /\ last.hadWindow
    /\ last.windowMs = last.prevLen
    /\ last.at > last.prevStart + last.prevLen )
  => /\ last.count = 1
     /\ last.ttlMs = last.prevLen
     /\ entries[last.key] = [count |-> 1, resetAt |-> last.at + last.prevLen]

WindowResetWitness ==
  /\ kind = "memory"
  /\ last.op = "increment"
  /\ last.hadWindow
  /\ last.windowMs = last.prevLen
  /\ last.at > last.prevStart + last.prevLen
  /\ last.prevCount >= 2
  /\ last.count = 1

\* C10: Independence. An increment on key A never changes the count or the
\* expiry stored for a distinct key B, and the count returned for B is the one
\* B would get if the increments on the other keys had not happened.
Independence ==
  /\ DOMAIN entries = DOMAIN shadow
  /\ \A k \in DOMAIN entries : entries[k] = shadow[k]
  /\ (kind = "memory" /\ last.op = "increment") =>
       /\ [count |-> last.count, ttlMs |-> last.ttlMs] = last.alone
       /\ \A k \in DOMAIN last.before \ {last.key} :
            k \in DOMAIN entries /\ entries[k] = last.before[k]

IndependenceWitness ==
  /\ kind = "memory"
  /\ last.op = "increment"
  /\ last.key = "keyB"
  /\ last.count = 2
  /\ "keyA" \in DOMAIN entries
  /\ entries["keyA"].count = 2
  /\ entries["keyA"].resetAt # entries["keyB"].resetAt


\* C21: Bulk clear of the MemoryStore. After clear(), whatever increments
\* preceded it, the store holds no entry, and the next increment of every key
\* returns count = 1 and a remaining time equal to the windowMs of that call.
BulkClear ==
  kind = "memory" =>
    /\ last.op = "clear" => entries = << >>
    /\ (last.op = "increment" /\ last.cleared /\ ~last.hadWindow) =>
         /\ last.key \notin DOMAIN last.before
         /\ last.count = 1
         /\ last.ttlMs = last.windowMs
         /\ entries[last.key] = [count |-> 1, resetAt |-> last.at + last.windowMs]

BulkClearWitness ==
  /\ kind = "memory"
  /\ last.op = "increment"
  /\ last.cleared
  /\ ~last.hadWindow
  /\ last.n = 4
  /\ last.key = "keyA"
  /\ last.before # << >>
  /\ last.count = 1
  /\ last.ttlMs = 1500

\* C27: Fixed window, never extended (MemoryStore). An increment that finds an
\* active window changes only that key's count and leaves its resetAt
\* unchanged, also when the call passes a windowMs different from the one that
\* started the window; resetAt of a key changes only when a new window starts.
WindowNeverExtended ==
  (kind = "memory" /\ last.op = "increment" /\ last.key \in DOMAIN last.before) =>
    LET old == last.before[last.key]
        new == entries[last.key]
    IN /\ last.at < old.resetAt =>
            /\ new.resetAt = old.resetAt
            /\ new.count = old.count + 1
            /\ DOMAIN entries = DOMAIN last.before
            /\ \A k \in DOMAIN entries \ {last.key} : entries[k] = last.before[k]
       /\ new.resetAt # old.resetAt =>
            /\ last.started
            /\ last.at >= old.resetAt
            /\ new = [count |-> 1, resetAt |-> last.at + last.windowMs]

WindowNeverExtendedWitness ==
  /\ kind = "memory"
  /\ last.op = "increment"
  /\ last.key \in DOMAIN last.before
  /\ last.at < last.before[last.key].resetAt
  /\ last.at > 0
  /\ last.windowMs # last.prevLen
  /\ last.count = 3
  /\ entries[last.key].resetAt = last.before[last.key].resetAt
  /\ entries[last.key].resetAt # last.at + last.windowMs

\* C29: MemoryStore expiry boundary. For a key whose entry has expiry resetAt,
\* an increment at t < resetAt continues the window and returns the remaining
\* time resetAt - t > 0; an increment at t = resetAt or later replaces the
\* entry with count = 1 and resetAt = t + windowMs.
ExpiryBoundary ==
  (kind = "memory" /\ last.op = "increment" /\ last.key \in DOMAIN last.before) =>
    LET old == last.before[last.key]
    IN IF last.at < old.resetAt
       THEN /\ last.count = old.count + 1
            /\ last.ttlMs = old.resetAt - last.at
            /\ last.ttlMs > 0
            /\ entries[last.key] = [count |-> old.count + 1, resetAt |-> old.resetAt]
       ELSE /\ last.count = 1
            /\ entries[last.key] = [count |-> 1, resetAt |-> last.at + last.windowMs]

ExpiryBoundaryWitness ==
  /\ kind = "memory"
  /\ last.op = "increment"
  /\ last.key \in DOMAIN last.before
  /\ last.at = last.before[last.key].resetAt
  /\ last.before[last.key].count = 2
  /\ last.count = 1
  /\ entries[last.key].resetAt = last.at + last.windowMs

\* C30: MemoryStore memory is bounded by key cardinality. The store holds at
\* most one entry per key, every stored count is >= 1, the entries are exactly
\* the keys incremented since the last clear(), and expiry alone never removes
\* an entry.
EntriesPerKey ==
  kind = "memory" =>
    /\ DOMAIN entries = DOMAIN win
    /\ DOMAIN entries \subseteq MemKeys
    /\ Cardinality(DOMAIN entries) <= Cardinality(MemKeys)
    /\ \A k \in DOMAIN entries : entries[k].count >= 1
    /\ last.op = "increment" =>
         /\ DOMAIN entries = DOMAIN last.before \cup {last.key}
         /\ Cardinality(DOMAIN entries) <= last.n

EntriesPerKeyWitness ==
  /\ kind = "memory"
  /\ last.op = "increment"
  /\ last.n = 4
  /\ Cardinality(DOMAIN entries) = 2
  /\ \E k \in DOMAIN entries \ {last.key} : entries[k].resetAt < now
  /\ entries[last.key].count = 2

\* C6: for every increment(key, windowMs) call on either store, the returned
\* remaining time satisfies 0 <= remainingWindowMs <= windowMs, windowMs being
\* the argument of that call.
RemainingWithinWindow ==
  last.op = "increment" => (0 <= last.ttlMs /\ last.ttlMs <= last.windowMs)

\* C7: in both stores, an increment that finds no active window for the key
\* (absent or elapsed) returns count = 1 and remainingWindowMs = windowMs.
NewWindowContract ==
  (last.op = "increment" /\ last.started)
  => (last.count = 1 /\ last.ttlMs = last.windowMs)

\* C9: RedisStore atomicity. While a key does not expire, the counts returned
\* to the concurrent increments of that key are pairwise distinct, and exactly
\* one of them, the one that observed count = 1, issues the expire call.
RedisAtomicity ==
  kind = "redis" =>
    \A k \in DOMAIN rlife :
      LET c == rlife[k].counts
          inLife == {p \in RProcs : /\ procs[p].pc # "idle"
                                    /\ procs[p].key = k
                                    /\ procs[p].life = rlife[k].id}
          toExpire == {p \in inLife : procs[p].pc = "expire"}
      IN /\ \A i, j \in 1 .. Len(c) : i # j => c[i] # c[j]
         /\ \A p, q \in inLife : p # q => procs[p].count # procs[q].count
         /\ \A p \in toExpire : procs[p].count = 1
         /\ rlife[k].expireCalls + Cardinality(toExpire) = 1

RedisAtomicityWitness ==
  /\ kind = "redis"
  /\ procs["p1"].pc = "ttl" /\ procs["p2"].pc = "ttl"
  /\ procs["p1"].key = procs["p2"].key
  /\ procs["p1"].life = procs["p2"].life
  /\ {procs["p1"].count, procs["p2"].count} = {1, 2}
  /\ rlife[procs["p1"].key].expireCalls = 1
  /\ rlife[procs["p1"].key].id = procs["p1"].life

\* C15: RedisStore expiry is established only by the creating increment. An
\* increment calls expire(key, ceil(windowMs / 1000)) if and only if its
\* post-increment count is 1; no step of an increment that observed
\* count > 1 sets or extends the expiry of the key.
ExpireIffCreated ==
  kind = "redis" =>
    /\ \A p \in RProcs :
         /\ procs[p].pc = "expire" => procs[p].count = 1
         /\ procs[p].pc = "ttl" => (procs[p].expire # << >> <=> procs[p].count = 1)
    /\ last.op = "increment" =>
         /\ last.expire # << >> <=> last.count = 1
         /\ last.expire # << >> =>
              /\ Len(last.expire) = 1
              /\ last.expire[1] * 1000 >= last.windowMs
              /\ (last.expire[1] - 1) * 1000 < last.windowMs

ExpirySetByCreator ==
  \A k \in RKeys :
    ( /\ RedisLive(redis, k, now)
      /\ redis'[k].expireAt # redis[k].expireAt )
    => \E p \in RProcs :
         /\ procs[p].pc = "expire" /\ procs'[p].pc = "ttl"
         /\ procs[p].key = k
         /\ procs[p].count = 1
         /\ redis[k].expireAt = NoExpiry
         /\ redis'[k].expireAt = now + procs'[p].expire[1] * 1000

ExpiryOnlyOnCreate == []ExpireIffCreated /\ [][ExpirySetByCreator]_vars

ExpiryOnlyOnCreateWitness ==
  /\ kind = "redis"
  /\ last.op = "increment"
  /\ last.count = 2
  /\ last.expire = << >>
  /\ last.windowMs = 1000
  /\ rlife[last.key].expireCalls = 1
  /\ RedisLive(redis, last.key, now)
  /\ redis[last.key].expireAt = 1500
  /\ now = 1000

(***************************************************************************)
(* Claims about the middleware, checked under SpecMw.                      *)
(***************************************************************************)

Admitted(r) ==
  r.nextCalls = 1 /\ r.status = 0 /\ r.headers = NoHeaders /\ r.body = NoBody
Denied(r) ==
  r.nextCalls = 0 /\ r.status = 429

\* C1: Fail-open. Whenever the store's increment rejects, whatever the count
\* would have been, the middleware invokes the continuation and writes no
\* status, no Retry-After header and no body.
FailOpen ==
  (handled.pc = "done" /\ ~handled.ok) => Admitted(handled)

FailOpenWitness ==
  /\ handled.pc = "done"
  /\ ~handled.ok
  /\ handled.fail = "after"
  /\ handled.count > handled.maxPerWindow
  /\ handled.nextCalls = 1

\* C2: Admission boundary. With a static policy maxPerWindow = M and a store
\* that does not fail, the k-th request of one scope key inside one window is
\* allowed for k <= M and denied for k > M, for every M >= 0.
AdmissionBoundary ==
  (opts.store = "memory" /\ opts.getConfig = "none" /\ handled.pc = "done")
  => IF handled.pos <= opts.maxPerWindow THEN Admitted(handled) ELSE Denied(handled)

AdmissionBoundaryWitness ==
  /\ opts.store = "memory"
  /\ opts.getConfig = "none"
  /\ opts.maxPerWindow = 2
  /\ handled.pc = "done"
  /\ handled.pos = 3
  /\ Denied(handled)

\* C3: Resolver failure is fail-open. If the client-key resolver or the policy
\* resolver throws, the continuation is invoked, no 429 is produced and the
\* error does not escape the middleware.
ResolverFailOpen ==
  (handled.pc \in {"done", "rejected"} /\ handled.thr # "none")
  => handled.pc = "done" /\ Admitted(handled)

\* C8: the MemoryStore increment is atomic per key. The increments of one key
\* inside one window, made by requests handled concurrently, return 1, 2, 3, ...
\* each once (from a count c: c+1, ..., c+N), and the stored count is the
\* number of increments made.
AtomicIncrement ==
  opts.store = "memory" =>
    /\ \A k \in DOMAIN win :
         /\ \A i \in 1 .. Len(win[k].counts) : win[k].counts[i] = i
         /\ k \in DOMAIN entries
         /\ entries[k].count = win[k].calls
    /\ \A s1, s2 \in Slots :
         ( /\ s1 # s2
           /\ reqs[s1].pc = "awaiting" /\ reqs[s2].pc = "awaiting"
           /\ reqs[s1].scopeKey = reqs[s2].scopeKey
           /\ reqs[s1].winStart = reqs[s2].winStart )
         => reqs[s1].count # reqs[s2].count

AtomicIncrementWitness ==
  /\ opts.store = "memory"
  /\ reqs[1].pc = "awaiting" /\ reqs[2].pc = "awaiting"
  /\ reqs[1].scopeKey = reqs[2].scopeKey
  /\ reqs[1].winStart = reqs[2].winStart
  /\ {reqs[1].count, reqs[2].count} = {2, 3}
  /\ entries[reqs[1].scopeKey].count = 3
  /\ now > reqs[1].winStart

\* C12: Per-route independence. For one client and one shared store, the
\* admission decision of a request depends only on the requests the same
\* client made to the same (method, path) in that route's current window:
\* it is admitted iff it is at most the maxPerWindow-th of them, whatever
\* was sent to other routes and however the handlers interleave.
RouteIndependence ==
  (opts.store = "memory" /\ handled.pc = "done")
  => IF handled.rpos <= handled.maxPerWindow
     THEN Admitted(handled) ELSE Denied(handled)

RouteIndependenceWitness ==
  /\ opts.store = "memory"
  /\ opts.getConfig = "byRoute"
  /\ handled.pc = "done"
  /\ handled.req.method = "POST" /\ handled.req.path = "/b"
  /\ handled.rpos = 1
  /\ Admitted(handled)
  /\ <<handled.key, "GET", "/a">> \in DOMAIN rwin
  /\ rwin[<<handled.key, "GET", "/a">>].calls = 2
  /\ now < rwin[<<handled.key, "GET", "/a">>].start + rwin[<<handled.key, "GET", "/a">>].len

\* C13: Decision dichotomy. Whenever the store increment succeeds, either
\* count > maxPerWindow and the 429 response is written and the continuation
\* is not invoked, or the continuation is invoked exactly once and no status,
\* header or body is set.
DecisionDichotomy ==
  (handled.pc = "done" /\ handled.ok)
  => IF handled.count > handled.maxPerWindow
     THEN /\ handled.nextCalls = 0
          /\ handled.status = 429
          /\ DOMAIN handled.headers = {"Retry-After"}
          /\ handled.body # NoBody
     ELSE /\ handled.nextCalls = 1
          /\ handled.status = 0
          /\ handled.headers = NoHeaders
          /\ handled.body = NoBody

DecisionDichotomyWitness ==
  /\ handled.pc = "done"
  /\ handled.ok
  /\ handled.count = handled.maxPerWindow + 1
  /\ handled.maxPerWindow > 0
  /\ handled.nextCalls = 0
  /\ handled.status = 429
  /\ handled.body.error = "Too Many Requests"

\* C14: Retry-After rounding. On every denial the status is 429, the
\* Retry-After header is the integer ceil(remainingWindowMs / 1000), i.e. the
\* least n with n * 1000 >= remainingWindowMs (1500 gives 2, 60000 gives 60,
\* 0 gives 0), and the body's retryAfter is the same integer.
RetryAfterRounding ==
  /\ CeilSec(1500) = 2
  /\ CeilSec(60000) = 60
  /\ CeilSec(0) = 0
  /\ (handled.pc = "done" /\ handled.status # 0)
     => /\ handled.status = 429
        /\ LET n == handled.body.retryAfter
           IN /\ n \in Nat
              /\ n * 1000 >= handled.ttlMs
              /\ (n - 1) * 1000 < handled.ttlMs
              /\ handled.headers["Retry-After"] = ToString(n)

RetryAfterRoundingWitness ==
  /\ handled.pc = "done"
  /\ handled.status = 429
  /\ handled.ttlMs = 500
  /\ handled.headers["Retry-After"] = "1"
  /\ handled.body.retryAfter = 1

\* C18: Policy resolution. With a getConfig resolver configured, the window
\* length passed to the store and the maximum compared with the count are the
\* resolver's result for the request and the static pair is not used; without
\* a resolver the static pair is used for every request.
PolicyResolution ==
  (opts.store = "memory" /\ handled.pc = "done")
  => LET policy == IF opts.getConfig = "byRoute" THEN GetConfigByRoute(handled.req)
                   ELSE [maxPerWindow |-> opts.maxPerWindow, windowMs |-> opts.windowMs]
     IN /\ handled.windowMs = policy.windowMs
        /\ handled.maxPerWindow = policy.maxPerWindow
        /\ handled.pos = 1 => handled.ttlMs = policy.windowMs
        /\ Denied(handled) <=> handled.count > policy.maxPerWindow
        /\ Admitted(handled) <=> handled.count <= policy.maxPerWindow

PolicyResolutionWitness ==
  /\ opts.store = "memory"
  /\ opts.getConfig = "byRoute"
  /\ opts.maxPerWindow = 0
  /\ opts.windowMs = 1000
  /\ handled.pc = "done"
  /\ handled.req.path = "/a"
  /\ handled.pos = 1
  /\ handled.ttlMs = 1500
  /\ handled.count = 1
  /\ Admitted(handled)

\* C22: No over-admission under concurrency. With a static policy
\* maxPerWindow = M and a MemoryStore that does not fail, for every scope key
\* and every store window of that key at most M of the requests counted in
\* that window are admitted, however the handlers interleave.
NoOverAdmission ==
  (opts.store = "memory" /\ opts.getConfig = "none") =>
    \A w \in DOMAIN adm : adm[w] <= opts.maxPerWindow

NoOverAdmissionWitness ==
  /\ opts.store = "memory"
  /\ opts.getConfig = "none"
  /\ opts.maxPerWindow = 1
  /\ handled.pc = "done"
  /\ handled.count = 1
  /\ Admitted(handled)
  /\ adm[<<handled.scopeKey, handled.winStart>>] = 1
  /\ \E s \in Slots :
       /\ reqs[s].pc = "awaiting"
       /\ reqs[s].scopeKey = handled.scopeKey
       /\ reqs[s].winStart = handled.winStart
       /\ reqs[s].count = 3

\* C28: Every request handled by the middleware (its policy and client key
\* resolved) causes exactly one store increment, with the scope key built from
\* the resolved client key, the method and the path, and with the resolved
\* window length, for allowed and denied requests alike: the count returned is
\* the number of requests of that client and route in the window, denied ones
\* included, and no entry of the store is reset or removed by the middleware.
OneIncrementPerRequest ==
  (opts.store = "memory" /\ handled.pc = "done") =>
    LET req == handled.req
        policy == IF opts.getConfig = "byRoute" THEN GetConfigByRoute(req)
                  ELSE [maxPerWindow |-> opts.maxPerWindow, windowMs |-> opts.windowMs]
        key == IF opts.keyGenerator = "custom" THEN CustomKeyGenerator(req)
               ELSE DefaultKeyGenerator(req)
    IN /\ handled.scopeKey = "rl:" \o key \o ":" \o req.method \o ":" \o req.path
       /\ handled.windowMs = policy.windowMs
       /\ handled.count = handled.rpos
       /\ handled.rpos = 1 => handled.ttlMs = policy.windowMs
       /\ handled.scopeKey \in DOMAIN entries
       /\ entries[handled.scopeKey].count >= 1
       /\ \A w \in DOMAIN rwin :
            LET k == "rl:" \o w[1] \o ":" \o w[2] \o ":" \o w[3]
            IN k \in DOMAIN entries /\ entries[k].count = rwin[w].calls

OneIncrementPerRequestWitness ==
  /\ opts.store = "memory"
  /\ opts.maxPerWindow = 1
  /\ opts.getConfig = "none"
  /\ handled.pc = "done"
  /\ Denied(handled)
  /\ handled.count = 3
  /\ handled.rpos = 3
  /\ entries[handled.scopeKey].count = 3

(***************************************************************************)
(* Claims about key derivation, checked under SpecKey.                     *)
(***************************************************************************)

\* C11: Scope key isolation. Two requests produce the same scope key if and
\* only if they share client identity, method and path, also when the client
\* identifier or the path contains ':'.
ScopeKeyIsolation ==
  kout # NoReqs =>
    ( kout[1].scope = kout[2].scope
      <=> /\ kout[1].client = kout[2].client
          /\ kreqs.r[1].method = kreqs.r[2].method
          /\ kreqs.r[1].path = kreqs.r[2].path )

\* C19: Default client key derivation. A non-empty API-key header gives
\* key:<value>; an absent or empty header gives ip:<remote address>; no
\* determinable address gives ip:unknown; a key-derived identifier never
\* equals an IP-derived one.
KeyDerived(req) ==
  "x-api-key" \in DOMAIN req.headers /\ req.headers["x-api-key"] # ""

DefaultKeyDerivation ==
  (kout # NoReqs /\ kreqs.o.keyGenerator = "default") =>
    /\ \A i \in {1, 2} :
         LET req == kreqs.r[i]
         IN kout[i].client =
              IF KeyDerived(req) THEN "key:" \o req.headers["x-api-key"]
              ELSE IF req.ip # << >> THEN "ip:" \o req.ip[1]
              ELSE IF req.remoteAddress # << >> THEN "ip:" \o req.remoteAddress[1]
              ELSE "ip:unknown"
    /\ (KeyDerived(kreqs.r[1]) /\ ~KeyDerived(kreqs.r[2]))
         => kout[1].client # kout[2].client

DefaultKeyDerivationWitness ==
  /\ kout # NoReqs
  /\ kreqs.o.keyGenerator = "default"
  /\ KeyDerived(kreqs.r[1])
  /\ "x-api-key" \in DOMAIN kreqs.r[2].headers
  /\ kreqs.r[2].headers["x-api-key"] = ""
  /\ kreqs.r[2].ip = << >>
  /\ kreqs.r[2].remoteAddress = << >>
  /\ kout[2].client = "ip:unknown"

\* C20: Custom client-key override. With a keyGenerator supplied the scope
\* key is built from its result alone: the API-key header and the remote
\* address do not influence it.
CustomKeyOverride ==
  (kout # NoReqs /\ kreqs.o.keyGenerator = "custom") =>
    /\ \A i \in {1, 2} :
         LET req == kreqs.r[i]
             id  == IF "x-client-id" \in DOMAIN req.headers
                    THEN req.headers["x-client-id"] ELSE "anon"
         IN /\ kout[i].client = "custom:" \o id
            /\ kout[i].scope = "rl:custom:" \o id \o ":" \o req.method \o ":" \o req.path
    /\ ( /\ kreqs.r[1].method = kreqs.r[2].method
         /\ kreqs.r[1].path = kreqs.r[2].path
         /\ ("x-client-id" \in DOMAIN kreqs.r[1].headers)
              = ("x-client-id" \in DOMAIN kreqs.r[2].headers) )
       => kout[1].scope = kout[2].scope

CustomKeyOverrideWitness ==
  /\ kout # NoReqs
  /\ kreqs.o.keyGenerator = "custom"
  /\ KeyDerived(kreqs.r[1])
  /\ ~KeyDerived(kreqs.r[2])
  /\ kreqs.r[1].ip # kreqs.r[2].ip
  /\ kreqs.r[1].remoteAddress # kreqs.r[2].remoteAddress
  /\ "x-client-id" \in DOMAIN kreqs.r[1].headers
  /\ "x-client-id" \in DOMAIN kreqs.r[2].headers
  /\ kout[1].scope = kout[2].scope

(***************************************************************************)
(* Claims about startup, checked under SpecApp.                            *)
(***************************************************************************)

\* C16: Store selection at startup. createRateLimitStore returns the
\* RedisStore exactly when REDIS_URL is present and the connection succeeds;
\* when it is absent, or the connection attempt fails, it returns a
\* MemoryStore; it never rejects.
StoreSelection ==
  /\ app.pc # "rejected"
  /\ app.pc \in {"resolved", "serving"} =>
       /\ app.store \in {"memory", "redis"}
       /\ app.store = "redis" <=> (env # << >> /\ env[1] # "" /\ app.connect = "ready")
       /\ (env = << >> \/ app.connect = "error" \/ app.imported = "failed")
            => app.store = "memory"

StoreSelectionWitness ==
  /\ app.pc = "resolved"
  /\ env = <<"redis://localhost:6379">>
  /\ app.connect = "error"
  /\ app.store = "memory"

\* C17: The store choice is made once. Every request of a middleware instance
\* uses the store fixed at construction; when the selected RedisStore fails at
\* run time the request is admitted, the middleware does not turn to a
\* MemoryStore and the selection is not run again.
StoreChosenOnce ==
  app.pc = "serving" =>
    /\ app.selections = 1
    /\ kind = app.store
    /\ opts.store = app.store
    /\ handled.pc = "done" =>
         /\ handled.store = app.store
         /\ ~handled.ok => Admitted(handled)
    /\ app.store = "redis" => entries = << >>
    /\ app.store = "memory" => redis = << >>

StoreChosenOnceWitness ==
  /\ app.pc = "serving"
  /\ app.store = "redis"
  /\ nreq = 3
  /\ handled.pc = "done"
  /\ ~handled.ok
  /\ handled.failAt = "ttl"
  /\ handled.count = 2
  /\ handled.store = "redis"
  /\ Admitted(handled)
  /\ entries = << >>

\* C23: RedisStore windows always end. When the backend calls (incr, expire,
\* ttl) may fail, whenever no increment is in flight every key with a positive
\* count has an expiry set (so a denied client is admitted again after waiting).
RedisWindowsEnd ==
  (app.pc = "serving" /\ kind = "redis") =>
    \A k \in DOMAIN redis :
      (RedisLive(redis, k, now) /\ redis[k].val > 0) => redis[k].expireAt # NoExpiry

(***************************************************************************)
(* Claims about throwing callbacks and retries, checked under SpecSeq.     *)
(***************************************************************************)

\* C24: For every request the middleware invokes the continuation at most
\* once, also when the continuation throws after the increment succeeded.
NextAtMostOnce ==
  handled.pc = "done" => handled.nextCalls <= 1

\* C25: For every request the middleware never both writes (part of) a 429
\* response and invokes the continuation, also when setting the Retry-After
\* header, the status or the body throws on the deny path.
NeverDenyAndNext ==
  handled.pc = "done" =>
    ~ ( /\ handled.nextCalls > 0
        /\ (handled.status # 0 \/ handled.headers # NoHeaders \/ handled.body # NoBody) )

\* C26: Retry-After is sufficient with the MemoryStore. With a static policy
\* and maxPerWindow >= 1, if a request was denied with Retry-After = r and the
\* client's next request on that method and path comes at least r seconds
\* later, that request is admitted with count = 1.
RetryAfterSufficient ==
  ( /\ handled.pc = "done"
    /\ opts.maxPerWindow >= 1
    /\ handled.deny # NoDeny
    /\ handled.at >= handled.deny.at + handled.deny.retryAfter * 1000 )
  => /\ handled.count = 1
     /\ handled.nextCalls >= 1
     /\ handled.status = 0
     /\ handled.headers = NoHeaders
     /\ handled.body = NoBody

RetryAfterSufficientWitness ==
  /\ handled.pc = "done"
  /\ opts.maxPerWindow = 1
  /\ handled.deny # NoDeny
  /\ handled.deny.ttlMs = 500
  /\ handled.deny.retryAfter = 1
  /\ handled.at = handled.deny.at + 1000
  /\ handled.thr = "none"
  /\ handled.count = 1
  /\ handled.nextCalls = 1

====
